---- MODULE Spec2Model ----
(***************************************************************************)
(* Model of the prompt-discovery client (prompt_complex_data.py): the      *)
(* recovery of a type from an argument description, the construction of   *)
(* the dynamic model, example generation, model printing, and the         *)
(* discovery loop over the prompts a server lists.                        *)
(*                                                                         *)
(* Python str values are TLA+ strings; s[i] is written Ch(s, i).          *)
(* Python typing objects are records [kind, args]; JSON-like example      *)
(* values are records [json, text, keys, items].                          *)
(***************************************************************************)
EXTENDS Integers, Sequences, FiniteSets, TLC

VARIABLES
    pc,             \* position of run_with_server / discover_capabilities
    server_prompts, \* what the server answers to list_prompts
    prompts,        \* prompts_response.prompts once received
    next_i,         \* index of the prompt the for loop takes next
    DynamicModel,   \* the model of the prompt processed last (loop local)
    example_data,   \* the example built for the prompt processed last
    out,            \* everything printed so far, in order
    calls,          \* remote calls issued on the session, in order
    raised          \* the exception that left run_with_server, or "none"

vars == <<pc, server_prompts, prompts, next_i, DynamicModel, example_data,
          out, calls, raised>>

-----------------------------------------------------------------------------
(* Bounds of the model *)

\* longest prompt listing a server answers with
MaxPrompts == 2
\* deepest nesting of List[...] / Dict[..., ...] in a generated type hint
MaxDepth == 3

-----------------------------------------------------------------------------
(* Python str helpers *)

Ch(s, i) == SubSeq(s, i, i)

Whitespace == {" ", "\t", "\n"}

\* s.startswith(p)
StartsWith(s, p) == Len(s) >= Len(p) /\ SubSeq(s, 1, Len(p)) = p

\* indices of s holding the character c
Positions(s, c) == {i \in 1..Len(s) : Ch(s, i) = c}

SetMax(S) == CHOOSE m \in S : \A x \in S : x <= m
SetMin(S) == CHOOSE m \in S : \A x \in S : m <= x

\* str.strip(): drop leading and trailing whitespace
RECURSIVE LStrip(_)
LStrip(s) == IF Len(s) > 0 /\ Ch(s, 1) \in Whitespace THEN LStrip(Tail(s)) ELSE s
RECURSIVE RStrip(_)
RStrip(s) ==
    IF Len(s) > 0 /\ Ch(s, Len(s)) \in Whitespace
    THEN RStrip(SubSeq(s, 1, Len(s) - 1)) ELSE s
Strip(s) == LStrip(RStrip(s))

-----------------------------------------------------------------------------
(* Python typing objects *)

PyClass(k) == [kind |-> k, args |-> <<>>]
PyStr == PyClass("str")
PyInt == PyClass("int")
PyFloat == PyClass("float")
PyBool == PyClass("bool")
PyNoneType == PyClass("NoneType")
PyAny == PyClass("Any")
PyList(t) == [kind |-> "List", args |-> <<t>>]
PyDict(k, v) == [kind |-> "Dict", args |-> <<k, v>>]

\* the value extract_type_from_description returns for "no match"
None == PyClass("None")

-----------------------------------------------------------------------------
(* extract_type_from_description *)

BasicTypeNames == {"str", "int", "float", "bool", "EmailStr"}

\* basic_types = {'str': str, 'int': int, 'float': float, 'bool': bool, 'EmailStr': str}
basic_types(k) ==
    CASE k = "str" -> PyStr
      [] k = "int" -> PyInt
      [] k = "float" -> PyFloat
      [] k = "bool" -> PyBool
      [] k = "EmailStr" -> PyStr

\* basic_types.get(k, default)
BasicTypesGet(k, default) == IF k \in BasicTypeNames THEN basic_types(k) ELSE default

\* re.search(r'\((.*?)\)$', description): "$" matches at the end of the string or
\* just before a newline that ends it; the search takes the leftmost "(" from
\* which the rest can match, and "." does not match a newline.
\* The index of the ")" the match ends with, 0 when there is none.
SuffixClose(description) ==
    LET n == Len(description) IN
    IF n >= 1 /\ Ch(description, n) = ")" THEN n
    ELSE IF n >= 2 /\ Ch(description, n) = "\n" /\ Ch(description, n - 1) = ")" THEN n - 1
    ELSE 0

\* The indices of "(" from which '\((.*?)\)$' matches.
SuffixOpens(description) ==
    LET q == SuffixClose(description) IN
    {p \in Positions(description, "(") :
        /\ p < q
        /\ \A j \in (p + 1)..(q - 1) : Ch(description, j) # "\n"}

HasSuffixMatch(description) == SuffixOpens(description) # {}

\* match.group(1)
SuffixGroup(description) ==
    SubSeq(description, SetMin(SuffixOpens(description)) + 1, SuffixClose(description) - 1)

\* type_str is a group of "." characters, so it holds no newline.
\* re.match(r'List\[(.*)\]', type_str): anchored at the start only; the greedy
\* group runs to the last "]" of the string.
ListCloses(type_str) == {r \in Positions(type_str, "]") : r >= 6}

ListMatch(type_str) == StartsWith(type_str, "List[") /\ ListCloses(type_str) # {}

ListInner(type_str) == SubSeq(type_str, 6, SetMax(ListCloses(type_str)) - 1)

\* re.match(r'Dict\[(.*),\s*(.*)\]', type_str): the first group is greedy, so the
\* split is at the last comma that still has a "]" after it; \s* then takes all
\* the whitespace that follows the comma, and the second group, greedy too, runs
\* to the last "]" of the string.
DictCommas(type_str) ==
    {c \in Positions(type_str, ",") :
        c >= 6 /\ \E r \in Positions(type_str, "]") : r > c}

DictMatch(type_str) == StartsWith(type_str, "Dict[") /\ DictCommas(type_str) # {}

DictSplit(type_str) == SetMax(DictCommas(type_str))

RECURSIVE SkipSpace(_, _)
SkipSpace(s, i) ==
    IF i <= Len(s) /\ Ch(s, i) \in Whitespace THEN SkipSpace(s, i + 1) ELSE i

DictClose(type_str) == SetMax(Positions(type_str, "]"))

DictGroup1(type_str) == SubSeq(type_str, 6, DictSplit(type_str) - 1)

DictGroup2(type_str) ==
    SubSeq(type_str, SkipSpace(type_str, DictSplit(type_str) + 1), DictClose(type_str) - 1)

\* a slip: the key default taken to be the default of the value
DictKeyDefaultAny == PyAny

\* the default basic_types.get uses for a Dict key that is no basic type name
DictKeyDefault == PyStr

parse_nested_type(type_str) ==
    IF ListMatch(type_str)
    THEN PyList(BasicTypesGet(ListInner(type_str), PyAny))
    ELSE IF DictMatch(type_str)
    THEN LET key_type == Strip(DictGroup1(type_str))
             value_type == Strip(DictGroup2(type_str))
         IN  PyDict(BasicTypesGet(key_type, DictKeyDefault), BasicTypesGet(value_type, PyAny))
    ELSE PyAny

extract_type_from_description(description) ==
    IF ~HasSuffixMatch(description) THEN None
    ELSE LET type_str == SuffixGroup(description) IN
         IF type_str \in BasicTypeNames THEN basic_types(type_str)
         ELSE parse_nested_type(type_str)

-----------------------------------------------------------------------------
(* create_pydantic_model_from_schema *)

\* Python dicts read from JSON are records; a key the JSON lacks is a field the
\* record lacks.
HasKey(d, k) == k \in DOMAIN d

\* the table of the fallback: {"string": str, ..., "object": Dict[str, Any]}
SchemaTypeNames == {"string", "integer", "boolean", "number", "null", "array", "object"}

\* a slip: "number" mapped to int
SchemaTypesNumberAsInt(t) ==
    CASE t = "string" -> PyStr
      [] t = "integer" -> PyInt
      [] t = "boolean" -> PyBool
      [] t = "number" -> PyInt
      [] t = "null" -> PyNoneType
      [] t = "array" -> PyList(PyAny)
      [] t = "object" -> PyDict(PyStr, PyAny)

schema_types(t) ==
    CASE t = "string" -> PyStr
      [] t = "integer" -> PyInt
      [] t = "boolean" -> PyBool
      [] t = "number" -> PyFloat
      [] t = "null" -> PyNoneType
      [] t = "array" -> PyList(PyAny)
      [] t = "object" -> PyDict(PyStr, PyAny)

\* {...}.get(argument["type"], Any)
SchemaTypesGet(t) == IF t \in SchemaTypeNames THEN schema_types(t) ELSE PyAny

\* a slip: the fallback taken for every hint that is no plain class
NeedsFallbackUnlessClass(field_type) ==
    field_type.kind \notin {"str", "int", "float", "bool"}

\* the fallback is taken when extract_type_from_description returned None
NeedsFallback(field_type) == field_type = None

\* fields[field_name] = value: a dict keeps the position of a key it already
\* holds and replaces its value; a new key goes to the end.
DictSetItem(fields, entry) ==
    IF \E i \in 1..Len(fields) : fields[i].name = entry.name
    THEN [i \in 1..Len(fields) |-> IF fields[i].name = entry.name THEN entry ELSE fields[i]]
    ELSE Append(fields, entry)

\* One pass of the loop body over the arguments, from the left. The result is
\* [raised, fields]: raised is "none", or the KeyError of argument["name"] or
\* argument["type"], which ends the function.
RECURSIVE BuildFields(_, _)
BuildFields(arguments, fields) ==
    IF arguments = <<>> THEN [raised |-> "none", fields |-> fields]
    ELSE LET argument == Head(arguments) IN
         IF ~HasKey(argument, "name")
         THEN [raised |-> "KeyError('name')", fields |-> <<>>]
         ELSE LET description == IF HasKey(argument, "description")
                                 THEN argument.description ELSE ""
                  extracted == extract_type_from_description(description)
              IN  IF NeedsFallback(extracted) /\ ~HasKey(argument, "type")
                  THEN [raised |-> "KeyError('type')", fields |-> <<>>]
                  ELSE LET field_type == IF NeedsFallback(extracted)
                                         THEN SchemaTypesGet(argument.type)
                                         ELSE extracted
                           required == IF HasKey(argument, "required")
                                       THEN argument.required ELSE FALSE
                           entry == [name |-> argument.name, type |-> field_type,
                                     required |-> required, description |-> description]
                       IN  BuildFields(Tail(arguments), DictSetItem(fields, entry))

\* [raised, fields], the fields being those of the model create_model returns
create_pydantic_model_from_schema(schema) == BuildFields(schema.arguments, <<>>)

-----------------------------------------------------------------------------
(* generate_example_input *)

\* JSON-like Python values: a str, a list, a dict (its keys and values in order)
JStr(text) == [json |-> "string", text |-> text, keys |-> <<>>, items |-> <<>>]
JArray(items) == [json |-> "array", text |-> "", keys |-> <<>>, items |-> items]
JObject(keys, items) == [json |-> "object", text |-> "", keys |-> keys, items |-> items]

\* the f-string of each branch of generate_field_example
Placeholder(kind, field_name) == "<" \o kind \o ": " \o field_name \o ">"

\* a slip: the element generated under the name of the list itself
ItemContextBare(field_name) == field_name

\* f"{field_name} item", f"{field_name} key", f"{field_name} value"
ItemContext(field_name) == field_name \o " item"
KeyContext(field_name) == field_name \o " key"
ValueContext(field_name) == field_name \o " value"

RECURSIVE generate_field_example(_, _)
generate_field_example(field_type, field_name) ==
    IF field_type = PyStr THEN JStr(Placeholder("string", field_name))
    ELSE IF field_type = PyInt THEN JStr(Placeholder("integer", field_name))
    ELSE IF field_type = PyFloat THEN JStr(Placeholder("float", field_name))
    ELSE IF field_type = PyBool THEN JStr(Placeholder("boolean", field_name))
    ELSE IF field_type.kind = "List"
    THEN JArray(<<generate_field_example(field_type.args[1], ItemContext(field_name))>>)
    ELSE IF field_type.kind = "Dict"
    THEN JObject(<<generate_field_example(field_type.args[1], KeyContext(field_name))>>,
                 <<generate_field_example(field_type.args[2], ValueContext(field_name))>>)
    ELSE JStr(Placeholder("any", field_name))

\* a slip: the entries taken from the last field to the first
ExampleDataReversed(fields) ==
    LET n == Len(fields) IN
    JObject([i \in 1..n |-> JStr(fields[n + 1 - i].name)],
            [i \in 1..n |-> generate_field_example(fields[n + 1 - i].type,
                                                   fields[n + 1 - i].name)])

\* example_data: one entry per field of the model, in the order of model_fields
ExampleData(fields) ==
    JObject([i \in 1..Len(fields) |-> JStr(fields[i].name)],
            [i \in 1..Len(fields) |-> generate_field_example(fields[i].type, fields[i].name)])

\* json.dumps(example_data, indent=4)
RECURSIVE Repeat(_, _)
Repeat(s, n) == IF n <= 0 THEN "" ELSE s \o Repeat(s, n - 1)

Indent(level) == Repeat("    ", level)

RECURSIVE JsonEscape(_)
JsonEscape(s) ==
    IF s = "" THEN ""
    ELSE LET c == Ch(s, 1) IN
         (CASE c = "\"" -> "\\\""
            [] c = "\\" -> "\\\\"
            [] c = "\n" -> "\\n"
            [] c = "\t" -> "\\t"
            [] OTHER -> c) \o JsonEscape(Tail(s))

JsonString(s) == "\"" \o JsonEscape(s) \o "\""

RECURSIVE JsonDumps(_, _)
RECURSIVE JsonMembers(_, _, _)
\* the members of a list or dict from position i on, one per line
JsonMembers(v, i, level) ==
    IF i > Len(v.items) THEN ""
    ELSE Indent(level)
         \o (IF v.json = "object" THEN JsonString(v.keys[i].text) \o ": " ELSE "")
         \o JsonDumps(v.items[i], level)
         \o (IF i < Len(v.items) THEN ",\n" ELSE "\n")
         \o JsonMembers(v, i + 1, level)
JsonDumps(v, level) ==
    IF v.json = "string" THEN JsonString(v.text)
    ELSE LET open == IF v.json = "object" THEN "{" ELSE "["
             close == IF v.json = "object" THEN "}" ELSE "]"
         IN  IF v.items = <<>> THEN open \o close
             ELSE open \o "\n" \o JsonMembers(v, 1, level + 1) \o Indent(level) \o close

generate_example_input(fields) == JsonDumps(ExampleData(fields), 0)

-----------------------------------------------------------------------------
(* print_pydantic_model *)

\* how a type shows inside the brackets of a typing generic
RECURSIVE TypeRepr(_)
TypeRepr(t) ==
    IF t.kind = "List" THEN "typing.List[" \o TypeRepr(t.args[1]) \o "]"
    ELSE IF t.kind = "Dict"
    THEN "typing.Dict[" \o TypeRepr(t.args[1]) \o ", " \o TypeRepr(t.args[2]) \o "]"
    ELSE IF t.kind = "Any" THEN "typing.Any"
    ELSE t.kind

\* f"{field_type}": a class shows as <class 'str'>, a typing object as its repr
TypeStr(t) ==
    IF t.kind \in {"List", "Dict", "Any"} THEN TypeRepr(t)
    ELSE "<class '" \o t.kind \o "'>"

\* f"{field_description!r}": repr of a str
RECURSIVE ReprEscape(_, _)
ReprEscape(s, quote) ==
    IF s = "" THEN ""
    ELSE LET c == Ch(s, 1) IN
         (CASE c = quote -> "\\" \o c
            [] c = "\\" -> "\\\\"
            [] c = "\n" -> "\\n"
            [] c = "\t" -> "\\t"
            [] OTHER -> c) \o ReprEscape(Tail(s), quote)

StrRepr(s) ==
    LET quote == IF Positions(s, "'") # {} /\ Positions(s, "\"") = {} THEN "\"" ELSE "'"
    IN  quote \o ReprEscape(s, quote) \o quote

\* field_info.description or "No description provided"
ShownDescription(description) ==
    IF description = "" THEN "No description provided" ELSE description

FieldLine(field) ==
    "    " \o field.name \o ": " \o TypeStr(field.type)
    \o " = Field(..., description=" \o StrRepr(ShownDescription(field.description)) \o ")"

ModelName == "PromptInputModel"

\* the lines print_pydantic_model prints, as printed entries of prompt i
print_pydantic_model(fields, i) ==
    <<[stmt |-> "class", prompt |-> i, text |-> "class " \o ModelName \o "(BaseModel):"]>>
    \o [k \in 1..Len(fields) |-> [stmt |-> "field", prompt |-> i, text |-> FieldLine(fields[k])]]

-----------------------------------------------------------------------------
(* The servers of the model: what list_prompts may answer *)

\* Type hints as the example servers write them in descriptions: a basic type
\* name, List[<hint>] or Dict[str, <hint>], nested to a depth.
RECURSIVE HintTrees(_)
HintTrees(depth) ==
    IF depth = 0 THEN {PyClass(k) : k \in BasicTypeNames}
    ELSE LET inner == HintTrees(depth - 1) IN
         inner \cup {PyList(t) : t \in inner} \cup {PyDict(PyStr, t) : t \in inner}

RECURSIVE HintText(_)
HintText(t) ==
    IF t.kind = "List" THEN "List[" \o HintText(t.args[1]) \o "]"
    ELSE IF t.kind = "Dict"
    THEN "Dict[" \o HintText(t.args[1]) \o ", " \o HintText(t.args[2]) \o "]"
    ELSE t.kind

\* the Python type a hint spells out (EmailStr is a str)
RECURSIVE HintType(_)
HintType(t) ==
    IF t.kind = "List" THEN PyList(HintType(t.args[1]))
    ELSE IF t.kind = "Dict" THEN PyDict(HintType(t.args[1]), HintType(t.args[2]))
    ELSE basic_types(t.kind)

HintDescription(t) == "Value (" \o HintText(t) \o ")"

\* descriptions without a parenthesized suffix at their end
PlainDescriptions ==
    {"", "Name of the user", "Values (in order) of the series", "Unbalanced ) text",
     "Open (only", "Close only)", "Split (over\nlines)"}

\* descriptions whose suffix is no type the client knows
UnknownHintDescriptions ==
    {"Project owner details (UserProfile)", "Contact email address (EmailStr|str)",
     "Padded ( str )", "Empty ()", "Lower case (list[str])", "Optional (Optional[str])",
     "Unclosed (List[str)", "One part (Dict[str])", "Prefixed (xList[str])"}

\* descriptions with a suffix the regular expressions read in their own way
OddHintDescriptions ==
    {"Status of the task (e.g. done) (str)", "Newline at the end (str)\n",
     "Scores by id (Dict[int, Dict[str, str]])", "Counts (Dict[UserId, int])",
     "No space (Dict[str,float])", "Wide (Dict[ str ,   float ])",
     "Padded item (List[ str ])", "Trailing (List[str] or None)",
     "Target value for each metric (Dict[str, float])",
     "Flags (Dict[bool, List[int]])", "Three parts (Dict[a, b, c])",
     "Input containing: name (str), number (int), email (EmailStr), and subscribe (bool)"}

\* Dict hints with a key other than str
KeyedDescription(key, value) == "Keyed (Dict[" \o key \o ", " \o value \o "])"

ScalarKeys == {"int", "float", "bool"}

KeyedDescriptions ==
    {KeyedDescription(k, HintText(t)) : k \in ScalarKeys, t \in HintTrees(1)}

\* Dict hints whose key is no basic type name
UnknownKeys == {"UserId", "Str", "List[str]", ""}

UnknownKeyDescriptions ==
    {KeyedDescription(k, v) : k \in UnknownKeys, v \in BasicTypeNames}

Descriptions ==
    {HintDescription(t) : t \in HintTrees(MaxDepth)}
    \cup PlainDescriptions \cup UnknownHintDescriptions \cup OddHintDescriptions
    \cup KeyedDescriptions \cup UnknownKeyDescriptions

\* the declared types a server may send: the seven of JSON Schema and one other
DeclaredTypes == SchemaTypeNames \cup {"date-time"}

\* one argument record of a prompt; without_type: the record has no "type"
Argument(name, description, type, required) ==
    [name |-> name, description |-> description, type |-> type, required |-> required]

ArgumentWithoutType(name, description, required) ==
    [name |-> name, description |-> description, required |-> required]

Prompt(name, description, arguments) ==
    [name |-> name, description |-> description, arguments |-> arguments]

\* prompts of one argument, over every description and declared type
FieldArguments ==
    {Argument("value", d, t, TRUE) : d \in Descriptions, t \in DeclaredTypes}
    \cup {ArgumentWithoutType("value", d, TRUE) : d \in Descriptions}

FieldPrompts == {Prompt("field", "One argument", <<a>>) : a \in FieldArguments}

\* prompts as the example servers register them, and malformed ones
PromptPool ==
    { Prompt("basic", "Subscribe a user",
             << Argument("name", "Name of the user (str)", "string", TRUE),
                Argument("subscribe", "Whether to subscribe (bool)", "boolean", TRUE) >>),
      Prompt("metrics", "Metrics report",
             << Argument("targets", "Target value for each metric (Dict[str, float])",
                         "object", TRUE),
                [name |-> "note", type |-> "string"] >>),
      Prompt("duplicate", "Two arguments of one name",
             << Argument("email", "User's email address (EmailStr)", "string", TRUE),
                Argument("count", "How many", "integer", FALSE),
                Argument("email", "Number of emails (int)", "integer", FALSE) >>),
      Prompt("untyped", "An argument without hint and type",
             << ArgumentWithoutType("topic", "Topic to write about", TRUE) >>),
      Prompt("unnamed", "An argument without name",
             << [description |-> "Lucky number (int)", type |-> "integer", required |-> TRUE] >>),
      Prompt("empty", "No arguments", << >>) }

RECURSIVE SeqsUpTo(_, _)
SeqsUpTo(S, n) ==
    IF n = 0 THEN {<<>>}
    ELSE LET shorter == SeqsUpTo(S, n - 1) IN
         shorter \cup {Append(q, x) : q \in shorter, x \in S}

Listings == SeqsUpTo(PromptPool, MaxPrompts) \cup {<<p>> : p \in FieldPrompts}

-----------------------------------------------------------------------------
(* discover_capabilities and run_with_server *)

Printed(stmt, i, text) == [stmt |-> stmt, prompt |-> i, text |-> text]

\* repr of a list of str
RECURSIVE ReprJoin(_)
ReprJoin(names) ==
    IF names = <<>> THEN ""
    ELSE StrRepr(Head(names)) \o (IF Len(names) > 1 THEN ", " ELSE "") \o ReprJoin(Tail(names))

ListRepr(names) == "[" \o ReprJoin(names) \o "]"

\* str(e) of a KeyError is the repr of its key
ErrorText(exc) ==
    CASE exc = "KeyError('name')" -> "'name'"
      [] exc = "KeyError('type')" -> "'type'"
      [] OTHER -> exc

\* the except branch: the error line and the traceback
ExceptPrints(exc, i) ==
    << Printed("error", i, "Error: " \o ErrorText(exc)),
       Printed("traceback", i, "Traceback (most recent call last): " \o exc) >>

\* the three prints that open the loop body
HeaderPrints(p, i) ==
    << Printed("rule", i, Repeat("#", 80)),
       Printed("prompt", i, "\nPrompt: " \o p.name),
       Printed("description", i, "Description: " \o p.description) >>

\* a slip: the example printed before the model
ModelPrintsExampleFirst(fields, i) ==
    << Printed("example_heading", i, "\nExample Input Structure:"),
       Printed("example", i, generate_example_input(fields)),
       Printed("model_heading", i, "\nModel Class:") >>
    \o print_pydantic_model(fields, i)

\* the prints of the loop body once the model exists
ModelPrints(fields, i) ==
    << Printed("model_heading", i, "\nModel Class:") >>
    \o print_pydantic_model(fields, i)
    \o << Printed("example_heading", i, "\nExample Input Structure:"),
          Printed("example", i, generate_example_input(fields)) >>

NoModel == [raised |-> "none", fields |-> <<>>]
NoExample == JObject(<<>>, <<>>)

Init ==
    /\ pc = "start"
    /\ server_prompts \in Listings
    /\ prompts = <<>>
    /\ next_i = 0
    /\ DynamicModel = NoModel
    /\ example_data = NoExample
    /\ out = <<>>
    /\ calls = <<>>
    /\ raised = "none"

\* await session.initialize() returns
InitializeOk ==
    /\ pc = "start"
    /\ calls' = Append(calls, "initialize")
    /\ pc' = "initialized"
    /\ UNCHANGED <<server_prompts, prompts, next_i, DynamicModel, example_data, out, raised>>

\* a slip: the failure of initialize swallowed, the run going on to discovery
InitializeFailsSwallowed ==
    /\ pc = "start"
    /\ calls' = Append(calls, "initialize")
    /\ raised' = "initialize failed"
    /\ pc' = "initialized"
    /\ UNCHANGED <<server_prompts, prompts, next_i, DynamicModel, example_data, out>>

\* await session.initialize() raises: the exception leaves run_with_server
InitializeFails ==
    /\ pc = "start"
    /\ calls' = Append(calls, "initialize")
    /\ raised' = "initialize failed"
    /\ pc' = "aborted"
    /\ UNCHANGED <<server_prompts, prompts, next_i, DynamicModel, example_data, out>>

\* await session.initialize() is cancelled: CancelledError leaves run_with_server
InitializeCancelled ==
    /\ pc = "start"
    /\ calls' = Append(calls, "initialize")
    /\ raised' = "CancelledError in initialize"
    /\ pc' = "aborted"
    /\ UNCHANGED <<server_prompts, prompts, next_i, DynamicModel, example_data, out>>

\* the exceptions with which session.initialize() leaves run_with_server
InitializeFailures == {"initialize failed", "CancelledError in initialize"}

\* where the loop stands once prompt i is done
AfterPrompt(listing, i) == IF i >= Len(listing) THEN "done" ELSE "loop"

\* await session.list_prompts() returns the listing
ListPromptsOk ==
    /\ pc = "initialized"
    /\ calls' = Append(calls, "list_prompts")
    /\ prompts' = server_prompts
    /\ out' = Append(out, Printed("server_prompts", 0,
                  "Server Prompts: "
                  \o ListRepr([k \in 1..Len(server_prompts) |-> server_prompts[k].name])))
    /\ next_i' = 1
    /\ pc' = AfterPrompt(server_prompts, 0)
    /\ UNCHANGED <<server_prompts, DynamicModel, example_data, raised>>

\* await session.list_prompts() raises an Exception: caught and printed
ListPromptsFails ==
    /\ pc = "initialized"
    /\ calls' = Append(calls, "list_prompts")
    /\ out' = out \o ExceptPrints("McpError('list_prompts failed')", 0)
    /\ pc' = "done"
    /\ UNCHANGED <<server_prompts, prompts, next_i, DynamicModel, example_data, raised>>

\* await session.list_prompts() is cancelled: CancelledError is no Exception, so
\* the except branch does not take it and it leaves run_with_server
ListPromptsCancelled ==
    /\ pc = "initialized"
    /\ calls' = Append(calls, "list_prompts")
    /\ raised' = "CancelledError in list_prompts"
    /\ pc' = "aborted"
    /\ UNCHANGED <<server_prompts, prompts, next_i, DynamicModel, example_data, out>>

\* one pass of the for loop; an exception of the body ends the loop in the
\* except branch of the function
ProcessPrompt ==
    /\ pc = "loop"
    /\ next_i <= Len(prompts)
    /\ LET p == prompts[next_i]
           made == create_pydantic_model_from_schema(p)
       IN  IF made.raised # "none"
           THEN /\ out' = out \o HeaderPrints(p, next_i) \o ExceptPrints(made.raised, next_i)
                /\ pc' = "done"
                /\ UNCHANGED <<next_i, DynamicModel, example_data>>
           ELSE /\ DynamicModel' = made
                /\ example_data' = ExampleData(made.fields)
                /\ out' = out \o HeaderPrints(p, next_i) \o ModelPrints(made.fields, next_i)
                /\ next_i' = next_i + 1
                /\ pc' = AfterPrompt(prompts, next_i)
    /\ UNCHANGED <<server_prompts, prompts, calls, raised>>

Next ==
    \/ InitializeOk
    \/ InitializeFails
    \/ InitializeCancelled
    \/ ListPromptsOk
    \/ ListPromptsFails
    \/ ListPromptsCancelled
    \/ ProcessPrompt

Spec == Init /\ [][Next]_vars

-----------------------------------------------------------------------------
(* What the printed report says about the prompts of the listing *)

Entries(stmt, i) == {k \in 1..Len(out) : out[k].stmt = stmt /\ out[k].prompt = i}

\* the loop body was entered for prompt i
Handled(i) == Entries("prompt", i) # {}
\* the loop body of prompt i ended in the except branch
Failed(i) == Entries("error", i) # {}
\* prompt i has its rendered model and its example payload in the report
Rendered(i) == Entries("class", i) # {} /\ Entries("example", i) # {}

\* two arguments of the schema carry one name
DuplicateNames(arguments) ==
    \E a, b \in 1..Len(arguments) :
        /\ a < b
        /\ HasKey(arguments[a], "name") /\ HasKey(arguments[b], "name")
        /\ arguments[a].name = arguments[b].name

\* the text t occurs in the text s
Contains(s, t) == \E k \in 1..(Len(s) - Len(t) + 1) : SubSeq(s, k, k + Len(t) - 1) = t

\* the run processed a listing of one prompt of one argument that has a name
OneField ==
    /\ pc = "done"
    /\ Len(prompts) = 1
    /\ Handled(1)
    /\ Len(prompts[1].arguments) = 1
    /\ HasKey(prompts[1].arguments[1], "name")
    /\ HasKey(prompts[1].arguments[1], "description")

TheArgument == prompts[1].arguments[1]

\* that prompt got its model, of one field
OneFieldMade == OneField /\ ~Failed(1) /\ Len(DynamicModel.fields) = 1

TheField == DynamicModel.fields[1]

-----------------------------------------------------------------------------
(* Claims *)

\* C1: when the run is over, every prompt listed after a prompt whose processing
\* failed has its rendered model and example payload in the report, or a failure
\* entry of its own.
C1_LaterPromptsReported ==
    pc = "done" =>
        \A i, j \in 1..Len(prompts) :
            (i < j /\ Failed(i)) => (Rendered(j) \/ Failed(j))

\* C2: a schema with two arguments of one name gets no model: its processing
\* ends in a DuplicateFieldError that names the field, and no definition of the
\* two is kept.
C2_DuplicateFieldRejected ==
    \A i \in 1..Len(prompts) :
        (Handled(i) /\ DuplicateNames(prompts[i].arguments)) =>
            /\ ~Rendered(i)
            /\ \E k \in Entries("error", i) : Contains(out[k].text, "DuplicateFieldError")

\* the declared type of the argument is missing or none of the seven known ones
TypeUnknownOrAbsent(argument) ==
    ~HasKey(argument, "type") \/ argument.type \notin SchemaTypeNames

\* C3: an argument whose description carries no recoverable type hint (no suffix,
\* or a suffix that names no type) and whose declared type is absent or unknown
\* is processed without a failure and gives a field typed Any.
C3_NoHintNoTypeGivesAny ==
    (/\ OneField
     /\ TheArgument.description \in PlainDescriptions \cup UnknownHintDescriptions
     /\ TypeUnknownOrAbsent(TheArgument))
    => (OneFieldMade /\ TheField.type = PyAny)

\* C4: a description ending in a parenthesized suffix that names no known type
\* gives the field the type of the declared type token, through the table of
\* schema types.
C4_UnknownHintFallsBackToDeclared ==
    (/\ OneField
     /\ TheArgument.description \in UnknownHintDescriptions
     /\ HasKey(TheArgument, "type"))
    => (OneFieldMade /\ TheField.type = SchemaTypesGet(TheArgument.type))

\* the hints the parser reads in full: a basic type name, a List of one, a
\* Dict from str to one
ReadableHints == HintTrees(1)

EndsParenthesized(description) ==
    LET n == Len(description)
        body == IF n >= 1 /\ Ch(description, n) = "\n"
                THEN SubSeq(description, 1, n - 1) ELSE description
        m == Len(body)
    IN  m >= 2 /\ Ch(body, m) = ")" /\ \E k \in 1..(m - 1) : Ch(body, k) = "("

\* the image of a declared type token
DeclaredImage(t) ==
    CASE t = "string" -> PyStr
      [] t = "integer" -> PyInt
      [] t = "number" -> PyFloat
      [] t = "boolean" -> PyBool
      [] t = "null" -> PyNoneType
      [] t = "array" -> PyList(PyAny)
      [] t = "object" -> PyDict(PyStr, PyAny)
      [] OTHER -> PyAny

\* C6: a description without a parenthesized suffix at its end gives the field
\* the image of the declared type token: string -> str, integer -> int,
\* number -> float, boolean -> bool, null -> NoneType, array -> List[Any],
\* object -> Dict[str, Any], any other token -> Any.
C6_DeclaredTypeMapping ==
    (/\ OneField
     /\ ~EndsParenthesized(TheArgument.description)
     /\ HasKey(TheArgument, "type"))
    => (OneFieldMade /\ TheField.type = DeclaredImage(TheArgument.type))

C6_Witness ==
    /\ OneFieldMade
    /\ TheArgument.description = "Name of the user"
    /\ HasKey(TheArgument, "type") /\ TheArgument.type = "array"
    /\ TheField.type = PyList(PyAny)

\* C7: a hint Dict[<key>, <value>] is split at its first comma outside inner
\* brackets, so the key type is read from the text before that comma:
\* Dict[int, Dict[str, str]] has the key type int.
C7_DictSplitAtTopLevelComma ==
    /\ \A k \in ScalarKeys, t \in HintTrees(1) :
           (OneField /\ TheArgument.description = KeyedDescription(k, HintText(t)))
           => (OneFieldMade /\ TheField.type.kind = "Dict"
               /\ TheField.type.args[1] = basic_types(k))
    /\ (OneField /\ TheArgument.description = "Scores by id (Dict[int, Dict[str, str]])")
       => (OneFieldMade /\ TheField.type.kind = "Dict" /\ TheField.type.args[1] = PyInt)

\* C8: for every hint nested up to MaxDepth, the type the model prints for the
\* field is the bracketed form of the hint itself: no part of it is replaced
\* by Any.
C8_NestedHintRoundTrip ==
    \A t \in HintTrees(MaxDepth) :
        (OneField /\ TheArgument.description = HintDescription(t))
        => (OneFieldMade /\ TypeStr(TheField.type) = TypeStr(HintType(t)))

\* C9 as stated: a Dict key that is no basic type name becomes Any.
C9_UnknownKeyBecomesAny ==
    \A k \in UnknownKeys, v \in BasicTypeNames :
        (OneField /\ TheArgument.description = KeyedDescription(k, v))
        => (OneFieldMade /\ TheField.type = PyDict(PyAny, basic_types(v)))

\* C9 as amended: a Dict key that is no basic type name becomes str; the parser
\* does not fail on it.
C9_UnknownKeyBecomesStr ==
    \A k \in UnknownKeys, v \in BasicTypeNames :
        (OneField /\ TheArgument.description = KeyedDescription(k, v))
        => (OneFieldMade /\ TheField.type = PyDict(PyStr, basic_types(v)))

C9_Witness ==
    /\ OneFieldMade
    /\ TheArgument.description = KeyedDescription("UserId", "int")
    /\ TheField.type = PyDict(PyStr, PyInt)

\* the example value v has the shape of the type t, with placeholders naming
\* the context c
RECURSIVE Mirrors(_, _, _)
Mirrors(t, v, c) ==
    CASE t.kind = "List" ->
            /\ v.json = "array" /\ Len(v.items) = 1
            /\ Mirrors(t.args[1], v.items[1], c \o " item")
      [] t.kind = "Dict" ->
            /\ v.json = "object" /\ Len(v.keys) = 1 /\ Len(v.items) = 1
            /\ Mirrors(t.args[1], v.keys[1], c \o " key")
            /\ Mirrors(t.args[2], v.items[1], c \o " value")
      [] t.kind = "str" -> v = JStr("<string: " \o c \o ">")
      [] t.kind = "int" -> v = JStr("<integer: " \o c \o ">")
      [] t.kind = "float" -> v = JStr("<float: " \o c \o ">")
      [] t.kind = "bool" -> v = JStr("<boolean: " \o c \o ">")
      [] OTHER -> v = JStr("<any: " \o c \o ">")

\* C10: the example of every field mirrors the field's type: a list of one
\* element generated for "<context> item", a dict of one entry generated for
\* "<context> key" and "<context> value", "<any: context>" for Any.
C10_ExampleMirrorsType ==
    (pc \in {"loop", "done"} /\ DynamicModel # NoModel)
    => /\ Len(example_data.items) = Len(DynamicModel.fields)
       /\ \A k \in 1..Len(DynamicModel.fields) :
              Mirrors(DynamicModel.fields[k].type, example_data.items[k],
                      DynamicModel.fields[k].name)

C10_Witness ==
    /\ OneFieldMade
    /\ TheField.type = PyDict(PyStr, PyAny)
    /\ example_data.items[1] =
           JObject(<<JStr("<string: value key>")>>, <<JStr("<any: value value>")>>)

\* the description ends with the hint "(kw)"
EndsWithHint(description, kw) ==
    LET n == Len(description)
        h == "(" \o kw \o ")"
    IN  n >= Len(h) /\ SubSeq(description, n - Len(h) + 1, n) = h

ScalarHintOf(description) == CHOOSE kw \in BasicTypeNames : EndsWithHint(description, kw)

\* the kind a scalar hint stands for, as the placeholders name it
KindName(kw) ==
    CASE kw = "str" -> "string"
      [] kw = "int" -> "integer"
      [] kw = "float" -> "float"
      [] kw = "bool" -> "boolean"
      [] kw = "EmailStr" -> "string"

KindType(kw) ==
    CASE kw = "str" -> PyStr
      [] kw = "int" -> PyInt
      [] kw = "float" -> PyFloat
      [] kw = "bool" -> PyBool
      [] kw = "EmailStr" -> PyStr

\* arguments of pairwise distinct names whose descriptions end in a scalar hint
ScalarSchema(arguments) ==
    /\ Len(arguments) >= 1
    /\ \A k \in 1..Len(arguments) :
           /\ HasKey(arguments[k], "name") /\ HasKey(arguments[k], "description")
           /\ \E kw \in BasicTypeNames : EndsWithHint(arguments[k].description, kw)
    /\ ~DuplicateNames(arguments)

\* C11: a schema of distinctly named arguments whose descriptions end in a
\* scalar hint gets a model of one field per argument, in argument order, typed
\* by the hint, and an example payload of the argument names in that order with
\* the values "<kind: name>"; name (str) and subscribe (bool) give
\* {"name": "<string: name>", "subscribe": "<boolean: subscribe>"}.
C11_ScalarSchemaEndToEnd ==
    \A i \in 1..Len(prompts) :
        (Handled(i) /\ ScalarSchema(prompts[i].arguments)) =>
            LET args == prompts[i].arguments IN
            /\ ~Failed(i) /\ Rendered(i)
            /\ (i = next_i - 1) =>
                 /\ Len(DynamicModel.fields) = Len(args)
                 /\ \A k \in 1..Len(args) :
                        /\ DynamicModel.fields[k].name = args[k].name
                        /\ DynamicModel.fields[k].type = KindType(ScalarHintOf(args[k].description))
                 /\ example_data =
                        JObject([k \in 1..Len(args) |-> JStr(args[k].name)],
                                [k \in 1..Len(args) |->
                                    JStr("<" \o KindName(ScalarHintOf(args[k].description))
                                         \o ": " \o args[k].name \o ">")])
            /\ (prompts[i].name = "basic") =>
                 \A k \in Entries("example", i) :
                     out[k].text = "{\n    \"name\": \"<string: name>\",\n"
                                   \o "    \"subscribe\": \"<boolean: subscribe>\"\n}"

\* "list_prompts" is among the remote calls issued
ListPromptsIssued == \E k \in 1..Len(calls) : calls[k] = "list_prompts"

\* C12: list_prompts is issued only after session.initialize has returned; when
\* initialize fails or is cancelled, the exception leaves run_with_server, and
\* discovery issues no call and prints nothing.
C12_NoCallsWithoutInitialization ==
    /\ ListPromptsIssued =>
           (Len(calls) = 2 /\ calls[1] = "initialize" /\ raised \notin InitializeFailures)
    /\ (raised \in InitializeFailures) =>
           (pc = "aborted" /\ calls = <<"initialize">> /\ out = <<>> /\ prompts = <<>>)

C12_Witness ==
    pc = "aborted" /\ raised = "CancelledError in initialize" /\ calls = <<"initialize">>

\* C13: a prompt whose processing fails has a failure entry in the report that
\* carries the prompt's name, and the prompts listed after it are still handled.
C13_NamedFailureEntry ==
    \A i \in 1..Len(prompts) :
        Failed(i) =>
            /\ \E k \in Entries("error", i) \cup Entries("traceback", i) :
                   Contains(out[k].text, prompts[i].name)
            /\ pc = "done" => \A j \in (i + 1)..Len(prompts) : Handled(j)

\* the number of prompts whose loop body was entered up to the entry k
PromptsUpTo(k) == Cardinality({j \in 1..k : out[j].stmt = "prompt"})

\* C14: the report follows the listing: the n-th prompt reported is the n-th
\* prompt listed, the entries of a prompt come before every entry of a later
\* one, and the model of a prompt comes before its example.
C14_ReportInListingOrder ==
    /\ \A k \in 1..Len(out) :
           out[k].stmt = "prompt" =>
               /\ PromptsUpTo(k) <= Len(prompts)
               /\ out[k].prompt = PromptsUpTo(k)
               /\ out[k].text = "\nPrompt: " \o prompts[PromptsUpTo(k)].name
    /\ \A k, l \in 1..Len(out) : k < l => out[k].prompt <= out[l].prompt
    /\ \A i \in 1..Len(prompts) :
           /\ Cardinality(Entries("class", i)) <= 1
           /\ Cardinality(Entries("example", i)) <= 1
           /\ \A k \in Entries("class", i) \cup Entries("field", i), l \in Entries("example", i) :
                  k < l
           /\ Entries("example", i) # {} => Entries("class", i) # {}

C14_Witness ==
    /\ pc = "done" /\ Len(prompts) = 2
    /\ prompts[1].name = "metrics" /\ prompts[2].name = "basic"
    /\ Rendered(1) /\ Rendered(2)

\* a placeholder string: "<" ... ">"
IsPlaceholder(v) ==
    /\ v.json = "string"
    /\ Len(v.text) >= 2 /\ Ch(v.text, 1) = "<" /\ Ch(v.text, Len(v.text)) = ">"

\* the value is a placeholder, a list of one such value, or a dict of one entry
\* with a placeholder key and such a value
RECURSIVE Serializable(_)
Serializable(v) ==
    CASE v.json = "string" -> IsPlaceholder(v)
      [] v.json = "array" -> Len(v.items) = 1 /\ Serializable(v.items[1])
      [] v.json = "object" ->
            /\ Len(v.keys) = 1 /\ Len(v.items) = 1
            /\ IsPlaceholder(v.keys[1]) /\ Serializable(v.items[1])
      [] OTHER -> FALSE

\* C15: the example of every model the run builds is serializable at every
\* level, for every hint and declared type, and its keys are the field names in
\* the order of the fields.
C15_ExampleSerializable ==
    (pc \in {"loop", "done"} /\ DynamicModel # NoModel) =>
        /\ example_data.json = "object"
        /\ example_data.keys =
               [k \in 1..Len(DynamicModel.fields) |-> JStr(DynamicModel.fields[k].name)]
        /\ Len(example_data.items) = Len(DynamicModel.fields)
        /\ \A k \in 1..Len(example_data.items) : Serializable(example_data.items[k])

C15_Witness ==
    /\ OneFieldMade
    /\ HasKey(TheArgument, "type") /\ TheArgument.type = "null"
    /\ TheField.type = PyNoneType
    /\ example_data.items[1] = JStr("<any: value>")

\* C17: the hint is the content of the parenthesized suffix that closes at the
\* end of the description, also after an earlier "(": "Status of the task
\* (e.g. done) (str)" gives the hint str and the field type str.
C17_HintIsTrailingSuffix ==
    /\ (OneField /\ TheArgument.description = "Status of the task (e.g. done) (str)")
       => (OneFieldMade /\ TheField.type = PyStr)
    /\ \A kw \in BasicTypeNames :
           (OneField /\ EndsWithHint(TheArgument.description, kw))
           => (OneFieldMade /\ TheField.type = KindType(kw))

====
